---------------------------- MODULE Spec2Model ----------------------------
(***************************************************************************)
(* Model of src/bot.py: a Telegram bot that records file metadata in a     *)
(* Firestore collection and an aiohttp surface that lists the records,     *)
(* proxies downloads and relays files back into a chat.                    *)
(*                                                                         *)
(* Python strings are TLA+ strings (TLC evaluates Len, SubSeq and \o on    *)
(* them); Python's None is the string None below, which no input contains. *)
(***************************************************************************)
EXTENDS Integers, Sequences, FiniteSets, TLC

VARIABLES
    store,      \* the Firestore collection "files": a set of documents
    now,        \* the store's clock, in ticks (TicksPerSecond per second)
    ing,        \* ing[w]: the handle_file coroutine running in slot w
    last,       \* the last exchange handled by an HTTP / data-channel handler
    listed      \* what the previous successful GET /api/files returned, and from what

vars == <<store, now, ing, last, listed>>

-----------------------------------------------------------------------------
(* Bounds of the model.                                                    *)

MaxRecords == 2         \* documents the collection may hold
MaxClock == 3           \* last tick of the store's clock
TicksPerSecond == 2     \* resolution of a store timestamp below one second
NumWorkers == 2         \* handle_file coroutines that may be in flight

-----------------------------------------------------------------------------
(* Python values and string helpers.                                       *)

None == "<None>"

NoneInt == 0 - 1

Truthy(s) == s # None /\ s # ""

\* x or d read as "x if x is not None else d": an empty string is kept.
OrElseUnlessNone(s, d) == IF s # None THEN s ELSE d

OrElse(s, d) == IF Truthy(s) THEN s ELSE d

StartsWith(s, p) == Len(s) >= Len(p) /\ SubSeq(s, 1, Len(p)) = p

CharAt(s, i) == SubSeq(s, i, i)

Contains(s, sub) ==
    \E i \in 1..(Len(s) - Len(sub) + 1) : SubSeq(s, i, i + Len(sub) - 1) = sub

UpperChars == "ABCDEFGHIJKLMNOPQRSTUVWXYZ"

LowerChars == "abcdefghijklmnopqrstuvwxyz"

LowerChar(c) ==
    IF \E i \in 1..Len(UpperChars) : CharAt(UpperChars, i) = c
    THEN CharAt(LowerChars, CHOOSE i \in 1..Len(UpperChars) : CharAt(UpperChars, i) = c)
    ELSE c

RECURSIVE Lower(_)
Lower(s) == IF Len(s) = 0 THEN "" ELSE LowerChar(CharAt(s, 1)) \o Lower(SubSeq(s, 2, Len(s)))

RECURSIVE Strip(_)
Strip(s) ==
    IF Len(s) = 0 THEN ""
    ELSE IF CharAt(s, 1) = " " THEN Strip(SubSeq(s, 2, Len(s)))
    ELSE IF CharAt(s, Len(s)) = " " THEN Strip(SubSeq(s, 1, Len(s) - 1))
    ELSE s

\* file_name.rsplit(".", 1)[-1]: what follows the last "." of s.
AfterLastDot(s) ==
    LET dots == {i \in 1..Len(s) : CharAt(s, i) = "."}
        d == CHOOSE i \in dots : \A j \in dots : j <= i
    IN  SubSeq(s, d + 1, Len(s))

-----------------------------------------------------------------------------
(* classify_file                                                           *)

ImageExts == {"jpg", "jpeg", "png", "gif", "bmp", "webp", "svg", "tiff"}

MediaExts == {"mp4", "mov", "avi", "mkv", "mp3", "ogg", "wav", "flac", "aac"}

Categories == {"image", "media", "document"}

\* The extension taken as it is written, without lower().
FileExtCaseKept(file_name) ==
    IF Contains(file_name, ".") THEN AfterLastDot(file_name) ELSE ""

FileExt(file_name) ==
    IF Contains(file_name, ".") THEN Lower(AfterLastDot(file_name)) ELSE ""

classify_file(mime_type, file_name) ==
    IF Truthy(mime_type) /\ StartsWith(mime_type, "image") THEN "image"
    ELSE IF Truthy(mime_type)
            /\ (StartsWith(mime_type, "video") \/ StartsWith(mime_type, "audio"))
    THEN "media"
    ELSE IF Truthy(file_name) /\ FileExt(file_name) \in ImageExts THEN "image"
    ELSE IF Truthy(file_name) /\ FileExt(file_name) \in MediaExts THEN "media"
    ELSE "document"

-----------------------------------------------------------------------------
(* Inbound file events: aiogram Message objects.  payload is the record of *)
(* the shape fields the message carries; a field that is None in aiogram   *)
(* is not in its domain.                                                   *)

Shapes == {"document", "photo", "video", "audio", "voice", "video_note", "animation"}

NoPayload == [s \in {} |-> None]

Named(id, name, size, mime) ==
    [file_id |-> id, file_name |-> name, file_size |-> size, mime_type |-> mime]

PhotoSize(id, uid, size) == [file_id |-> id, file_unique_id |-> uid, file_size |-> size]

Plain(id, size) == [file_id |-> id, file_size |-> size]

Msg(mid, payload) == [message_id |-> mid, chat_id |-> 42, payload |-> payload]

DocumentMessages ==
    {Msg(11, [document |-> Named("doc-1", n, 700, m)]) :
        n \in {None, "", "scan.JPG"}, m \in {None, "application/zip"}}

VideoMessages ==
    {Msg(12, [video |-> Named("vid-1", n, 900, m)]) :
        n \in {None, "clip.mov"}, m \in {None, "video/quicktime"}}

AudioMessages ==
    {Msg(13, [audio |-> Named("aud-1", n, NoneInt, m)]) :
        n \in {None, "song.flac"}, m \in {None, "audio/flac"}}

AnimationMessages ==
    {Msg(14, [animation |-> Named("ani-1", n, 300, m)]) :
        n \in {None, "fun.gif"}, m \in {None, "video/mp4"}}

PhotoMessage ==
    Msg(15, [photo |-> <<PhotoSize("pho-s", "AQADs", 90), PhotoSize("pho-l", "AQADl", 400)>>])

VoiceMessage == Msg(16, [voice |-> Plain("voi-1", 50)])

VideoNoteMessage == Msg(17, [video_note |-> Plain("vnt-1", 60)])

\* Telegram sets document beside animation on an animation message.
AnimationWithDocument ==
    Msg(18, [animation |-> Named("ani-2", "fun.gif", 300, "image/gif"),
             document |-> Named("doc-2", "fun.gif.mp4", 310, "video/mp4")])

\* A message that carries none of the seven shape fields.  The router filter
\* of lines 112-116 keeps such events from the dispatcher's calls; handle_file
\* itself accepts any Message, and lines 146-148 are its answer to this one.
UnrecognizedMessage == Msg(20, NoPayload)

NoMessage == Msg(0, NoPayload)

AllMessages ==
    DocumentMessages \cup VideoMessages \cup AudioMessages \cup AnimationMessages
        \cup {PhotoMessage, VoiceMessage, VideoNoteMessage, AnimationWithDocument,
              UnrecognizedMessage}

\* The events the specifications that are not about the record builder draw.
FewMessages ==
    {Msg(11, [document |-> Named("doc-1", "scan.JPG", 700, None)]), PhotoMessage,
     UnrecognizedMessage}

Has(m, shape) ==
    /\ shape \in DOMAIN m.payload
    /\ shape = "photo" => Len(m.payload[shape]) > 0

Unresolved == Named(None, None, NoneInt, None)

\* The probing with animation tried first, before document.
ResolveAnimationFirst(m) ==
    IF Has(m, "animation") THEN
        LET g == m.payload.animation
        IN  Named(g.file_id, OrElse(g.file_name, "animation.gif"), g.file_size,
                  OrElse(g.mime_type, "image/gif"))
    ELSE IF Has(m, "document") THEN
        LET d == m.payload.document
        IN  Named(d.file_id, OrElse(d.file_name, "document"), d.file_size, d.mime_type)
    ELSE IF Has(m, "photo") THEN
        LET photo == m.payload.photo[Len(m.payload.photo)]
        IN  Named(photo.file_id, "photo_" \o photo.file_unique_id \o ".jpg",
                  photo.file_size, "image/jpeg")
    ELSE IF Has(m, "video") THEN
        LET v == m.payload.video
        IN  Named(v.file_id, OrElse(v.file_name, "video.mp4"), v.file_size,
                  OrElse(v.mime_type, "video/mp4"))
    ELSE IF Has(m, "audio") THEN
        LET a == m.payload.audio
        IN  Named(a.file_id, OrElse(a.file_name, "audio.mp3"), a.file_size,
                  OrElse(a.mime_type, "audio/mpeg"))
    ELSE IF Has(m, "voice") THEN
        Named(m.payload.voice.file_id, "voice_" \o ToString(m.message_id) \o ".ogg",
              m.payload.voice.file_size, "audio/ogg")
    ELSE IF Has(m, "video_note") THEN
        Named(m.payload.video_note.file_id,
              "videonote_" \o ToString(m.message_id) \o ".mp4",
              m.payload.video_note.file_size, "video/mp4")
    ELSE Unresolved

\* handle_file, lines 121-144: the first shape present decides all four fields.
Resolve(m) ==
    IF Has(m, "document") THEN
        LET d == m.payload.document
        IN  Named(d.file_id, OrElse(d.file_name, "document"), d.file_size, d.mime_type)
    ELSE IF Has(m, "photo") THEN
        LET photo == m.payload.photo[Len(m.payload.photo)]
        IN  Named(photo.file_id, "photo_" \o photo.file_unique_id \o ".jpg",
                  photo.file_size, "image/jpeg")
    ELSE IF Has(m, "video") THEN
        LET v == m.payload.video
        IN  Named(v.file_id, OrElse(v.file_name, "video.mp4"), v.file_size,
                  OrElse(v.mime_type, "video/mp4"))
    ELSE IF Has(m, "audio") THEN
        LET a == m.payload.audio
        IN  Named(a.file_id, OrElse(a.file_name, "audio.mp3"), a.file_size,
                  OrElse(a.mime_type, "audio/mpeg"))
    ELSE IF Has(m, "voice") THEN
        Named(m.payload.voice.file_id, "voice_" \o ToString(m.message_id) \o ".ogg",
              m.payload.voice.file_size, "audio/ogg")
    ELSE IF Has(m, "video_note") THEN
        Named(m.payload.video_note.file_id,
              "videonote_" \o ToString(m.message_id) \o ".mp4",
              m.payload.video_note.file_size, "video/mp4")
    ELSE IF Has(m, "animation") THEN
        LET g == m.payload.animation
        IN  Named(g.file_id, OrElse(g.file_name, "animation.gif"), g.file_size,
                  OrElse(g.mime_type, "image/gif"))
    ELSE Unresolved

-----------------------------------------------------------------------------
(* handle_file (lines 117-169), one action per stretch between awaits.     *)

Workers == 1..NumWorkers

\* last when no exchange is being observed.  The handlers are observed one
\* exchange at a time: nothing else moves until ExchangeEnd has cleared last.
NoExchange == [kind |-> "none"]

Quiet == last = NoExchange

\* listed before any GET /api/files has been answered with a listing.
NoListing == [kind |-> "none"]

\* The exchange under way is a GET /api/files answered with the listing.
ListedNow ==
    /\ last.kind = "http"
    /\ last.req.path = "/api/files"
    /\ last.resp.status = 200
    /\ last.resp.body.kind = "files"

DocIds == 1..MaxRecords

StoreErrors == {"503 Deadline Exceeded"}

ChatErrors == {"Telegram server says - Too Many Requests: retry after 5"}

IdleTask ==
    [pc |-> "idle", msg |-> NoMessage, data |-> Unresolved, category |-> None,
     progress |-> "none", cause |-> None, adds |-> 0, rec |-> 0, error |-> None]

IdStore == {d.id : d \in store}

Running == {w \in Workers : ing[w].pc \notin {"idle", "done", "raised"}}

\* Lines 150-155: doc_data, with the id and the timestamp the store assigns.
DocData(t, id, ts) ==
    [id |-> id, file_id |-> t.data.file_id, file_name |-> t.data.file_name,
     file_size |-> t.data.file_size, mime_type |-> t.data.mime_type,
     category |-> t.category, chat_id |-> ToString(t.msg.chat_id), timestamp |-> ts]

\* Lines 117-119: the progress message is posted; a failed post raises.
HandleFileStart(w, m, ok, err) ==
    /\ Quiet
    /\ ing[w].pc = "idle"
    /\ Cardinality(store) + Cardinality(Running) < MaxRecords
    /\ ing' = [ing EXCEPT ![w] =
                 IF ok THEN [IdleTask EXCEPT !.pc = "resolve", !.msg = m,
                                             !.progress = "saving"]
                 ELSE [IdleTask EXCEPT !.pc = "raised", !.msg = m, !.error = err]]
    /\ UNCHANGED <<store, now, last, listed>>

\* The handler without the test of line 146.
NotFileIdNeverTrue(data) == FALSE

\* Line 146: not file_id.
NotFileId(data) == ~Truthy(data.file_id)

\* Lines 121-155: resolve the four fields, then classify.
HandleFileBuild(w) ==
    /\ Quiet
    /\ ing[w].pc = "resolve"
    /\ LET data == Resolve(ing[w].msg)
       IN  ing' = [ing EXCEPT ![w] =
                     IF NotFileId(data)
                     THEN [@ EXCEPT !.pc = "reject", !.data = data]
                     ELSE [@ EXCEPT !.pc = "write", !.data = data,
                              !.category = classify_file(data.mime_type, data.file_name)]]
    /\ UNCHANGED <<store, now, last, listed>>

\* Lines 146-148: the notice for a payload with no file_id.
HandleFileReject(w, ok, err) ==
    /\ Quiet
    /\ ing[w].pc = "reject"
    /\ ing' = [ing EXCEPT ![w] =
                 IF ok THEN [@ EXCEPT !.pc = "done", !.progress = "unprocessable"]
                 ELSE [@ EXCEPT !.pc = "raised", !.error = err]]
    /\ UNCHANGED <<store, now, last, listed>>

\* A store that keeps one document per chat: document(chat_id).set(doc).
StoreSetPerChat(docs, doc) == {d \in docs : d.chat_id # doc.chat_id} \cup {doc}

\* Line 158: add() creates a new document beside the ones the store holds.
StoreAdd(docs, doc) == docs \cup {doc}

\* Lines 157-158: db.collection("files").add(doc_data).
HandleFileAdd(w, ok, id, err) ==
    /\ Quiet
    /\ ing[w].pc = "write"
    /\ id \in DocIds \ IdStore
    /\ IF ok
       THEN /\ store' = StoreAdd(store, DocData(ing[w], id, now))
            /\ now' = now + 1
            /\ ing' = [ing EXCEPT ![w] = [@ EXCEPT !.pc = "confirm", !.rec = id,
                                                   !.adds = @ + 1]]
       ELSE /\ ing' = [ing EXCEPT ![w] = [@ EXCEPT !.pc = "except", !.error = err,
                                                   !.adds = @ + 1]]
            /\ UNCHANGED <<store, now>>
    /\ UNCHANGED <<last, listed>>

\* Lines 159-166: the confirmation; a failed edit raises inside the try block.
HandleFileConfirm(w, ok, err) ==
    /\ Quiet
    /\ ing[w].pc = "confirm"
    /\ ing' = [ing EXCEPT ![w] =
                 IF ok THEN [@ EXCEPT !.pc = "done", !.progress = "saved"]
                 ELSE [@ EXCEPT !.pc = "except", !.error = err]]
    /\ UNCHANGED <<store, now, last, listed>>

\* Lines 167-169: except Exception as e: the notice carries str(e).
HandleFileExcept(w, ok, err) ==
    /\ Quiet
    /\ ing[w].pc = "except"
    /\ ing' = [ing EXCEPT ![w] =
                 IF ok THEN [@ EXCEPT !.pc = "done", !.progress = "failed",
                                      !.cause = ing[w].error, !.error = None]
                 ELSE [@ EXCEPT !.pc = "raised", !.error = err]]
    /\ UNCHANGED <<store, now, last, listed>>

\* The coroutine has returned, or its exception has left it: the slot is free.
HandleFileEnd(w) ==
    /\ Quiet
    /\ ing[w].pc \in {"done", "raised"}
    /\ ing' = [ing EXCEPT ![w] = IdleTask]
    /\ UNCHANGED <<store, now, last, listed>>

\* The store's clock moves on between writes.
Tick ==
    /\ Quiet
    /\ now < MaxClock
    /\ now' = now + 1
    /\ UNCHANGED <<store, ing, last, listed>>

-----------------------------------------------------------------------------
(* Calls to the collaborators, in the order a handler issues them.         *)

\* err is the text of the exception a failed call raised (None: it returned);
\* status and content_type are those of a fetched response (0, None: no
\* response).
Call(api, target, arg, ok, err) ==
    [api |-> api, target |-> target, arg |-> arg, ok |-> ok, err |-> err, status |-> 0,
     content_type |-> None]

DispatchError == "Telegram server says - Bad Request: wrong file identifier/HTTP URL specified"

\* Lines 190 and 296: the methods of the relay loop, in list order.
Methods == <<"document", "photo", "video", "audio">>

SendApis == {"send_" \o Methods[i] : i \in 1..Len(Methods)}

\* The loop without its break: every method is tried whatever the others did.
RECURSIVE RelayWithoutBreak(_, _, _, _)
RelayWithoutBreak(i, chat, file_id, accepts) ==
    IF i > Len(Methods) THEN [sent |-> FALSE, calls |-> <<>>]
    ELSE IF ~chat.ok THEN RelayWithoutBreak(i + 1, chat, file_id, accepts)
    ELSE LET ok == Methods[i] \in accepts
             call == Call("send_" \o Methods[i], chat.v, file_id, ok,
                          IF ok THEN None ELSE DispatchError)
             rest == RelayWithoutBreak(i + 1, chat, file_id, accepts)
         IN  [sent |-> ok \/ rest.sent, calls |-> <<call>> \o rest.calls]

\* One pass of the for loop of lines 190-196 and 296-302, from method i on.
\* chat is the evaluated chat_id argument; when evaluating it raises (ok
\* FALSE) the except clause continues with the next method and no call is made.
RECURSIVE RelayFrom(_, _, _, _)
RelayFrom(i, chat, file_id, accepts) ==
    IF i > Len(Methods) THEN [sent |-> FALSE, calls |-> <<>>]
    ELSE IF ~chat.ok THEN RelayFrom(i + 1, chat, file_id, accepts)
    ELSE LET ok == Methods[i] \in accepts
             call == Call("send_" \o Methods[i], chat.v, file_id, ok,
                          IF ok THEN None ELSE DispatchError)
             rest == RelayFrom(i + 1, chat, file_id, accepts)
         IN  IF ok THEN [sent |-> TRUE, calls |-> <<call>>]
             ELSE [sent |-> rest.sent, calls |-> <<call>> \o rest.calls]

Relay(chat, file_id, accepts) == RelayFrom(1, chat, file_id, accepts)

-----------------------------------------------------------------------------
(* JSON values of a request body, and Python's view of them.               *)

JNull == [t |-> "null"]

JStr(s) == [t |-> "str", s |-> s]

JInt(n) == [t |-> "int", n |-> n]

\* not x
Falsy(j) == j.t = "null" \/ (j.t = "str" /\ j.s = "") \/ (j.t = "int" /\ j.n = 0)

\* The Python value of a JSON string or null.
PyStr(j) == IF j.t = "str" THEN j.s ELSE None

Digits == "0123456789"

IsDigit(c) == \E i \in 1..Len(Digits) : CharAt(Digits, i) = c

DigitValue(c) == (CHOOSE i \in 1..Len(Digits) : CharAt(Digits, i) = c) - 1

RECURSIVE DigitsValue(_)
DigitsValue(s) ==
    IF Len(s) = 0 THEN 0
    ELSE DigitsValue(SubSeq(s, 1, Len(s) - 1)) * Len(Digits) + DigitValue(CharAt(s, Len(s)))

AllDigits(s) == Len(s) > 0 /\ \A i \in 1..Len(s) : IsDigit(CharAt(s, i))

\* int(x): [ok, v]; ok FALSE stands for the ValueError / TypeError raised.
PyInt(j) ==
    IF j.t = "int" THEN [ok |-> TRUE, v |-> j.n]
    ELSE IF j.t = "str" THEN
        LET s == Strip(j.s)
            signed == Len(s) > 0 /\ CharAt(s, 1) \in {"+", "-"}
            body == IF signed THEN SubSeq(s, 2, Len(s)) ELSE s
        IN  IF AllDigits(body)
            THEN [ok |-> TRUE,
                  v |-> IF signed /\ CharAt(s, 1) = "-" THEN 0 - DigitsValue(body)
                        ELSE DigitsValue(body)]
            ELSE [ok |-> FALSE, v |-> 0]
    ELSE [ok |-> FALSE, v |-> 0]

\* dict.get(key) on a parsed JSON object.
Get(fields, key) == IF key \in DOMAIN fields THEN fields[key] ELSE JNull

-----------------------------------------------------------------------------
(* The aiohttp surface (lines 205-322).                                    *)

Response(status, cors, body) == [status |-> status, cors |-> cors, body |-> body]

ErrorBody(msg) == [kind |-> "error", error |-> msg]

EmptyBody == [kind |-> "empty"]

\* web.Response(headers=CORS_HEADERS)
Preflight == Response(200, TRUE, EmptyBody)

NoQuery == [k \in {} |-> None]

NoBody == [kind |-> "none"]

Request(method, path, query, body) ==
    [method |-> method, path |-> path, query |-> query, body |-> body]

HttpMethods == {"GET", "POST", "OPTIONS"}

\* main(), lines 318-322: add_get registers GET (the framework answers another
\* method with 405), add_route("*") registers every method.
Route(method, path) ==
    IF path = "/" THEN (IF method = "GET" THEN "handle_index" ELSE "not_allowed")
    ELSE IF path = "/health" THEN (IF method = "GET" THEN "handle_health" ELSE "not_allowed")
    ELSE IF path = "/api/files" THEN "handle_api_files"
    ELSE IF path = "/api/download" THEN "handle_api_download"
    ELSE IF path = "/api/send" THEN "handle_api_send"
    ELSE "not_found"

Exchange(kind, req, calls, resp) ==
    [kind |-> kind, req |-> req, calls |-> calls, resp |-> resp]

handle_index(req, html_exists) ==
    /\ Quiet
    /\ Route(req.method, req.path) = "handle_index"
    /\ last' = Exchange("http", req, <<>>,
                        Response(200, FALSE, [kind |-> IF html_exists THEN "file" ELSE "text"]))
    /\ UNCHANGED <<store, now, ing, listed>>

\* A method the route was not registered for: aiohttp's own 405 response.
MethodNotAllowed(req) ==
    /\ Quiet
    /\ Route(req.method, req.path) = "not_allowed"
    /\ last' = Exchange("http", req, <<>>, Response(405, FALSE, [kind |-> "text"]))
    /\ UNCHANGED <<store, now, ing, listed>>

\* Lines 219-220.
handle_health(req) ==
    /\ Quiet
    /\ Route(req.method, req.path) = "handle_health"
    /\ last' = Exchange("http", req, <<>>, Response(200, TRUE, [kind |-> "health"]))
    /\ UNCHANGED <<store, now, ing, listed>>

\* A stream whose order turns with the clock: ascending ids at an even tick,
\* descending ids at an odd one.
RECURSIVE StreamTurning(_)
StreamTurning(docs) ==
    IF docs = {} THEN <<>>
    ELSE LET d == CHOOSE x \in docs :
                      \A y \in docs : IF now % 2 = 0 THEN x.id <= y.id ELSE x.id >= y.id
         IN  <<d>> \o StreamTurning(docs \ {d})

\* db.collection("files").stream(): the documents in document-id order.
RECURSIVE Stream(_)
Stream(docs) ==
    IF docs = {} THEN <<>>
    ELSE LET d == CHOOSE x \in docs : \A y \in docs : x.id <= y.id
         IN  <<d>> \o Stream(docs \ {d})

\* Lines 230-233: d["timestamp"] = {"seconds": int(d["timestamp"].timestamp())}.
Normalized(d) == [d EXCEPT !.timestamp = [seconds |-> d.timestamp \div TicksPerSecond]]

\* Line 235: the sort key.
SortKey(x) == x.timestamp.seconds

\* files.sort(key=..., reverse=True): stable, equal keys keep their order.
RECURSIVE SortReverse(_)
SortReverse(files) ==
    IF Len(files) = 0 THEN <<>>
    ELSE LET head == SortReverse(SubSeq(files, 1, Len(files) - 1))
             x == files[Len(files)]
             k == Cardinality({i \in 1..Len(head) : SortKey(head[i]) >= SortKey(x)})
         IN  SubSeq(head, 1, k) \o <<x>> \o SubSeq(head, k + 1, Len(head))

\* Lines 227-236.
Listing(docs) ==
    LET streamed == Stream(docs)
    IN  SortReverse([i \in 1..Len(streamed) |-> Normalized(streamed[i])])

\* Lines 223-239.
handle_api_files(req, ok, err) ==
    /\ Quiet
    /\ Route(req.method, req.path) = "handle_api_files"
    /\ last' =
         IF req.method = "OPTIONS" THEN Exchange("http", req, <<>>, Preflight)
         ELSE IF ok
         THEN Exchange("http", req, <<Call("stream", 0, "files", TRUE, None)>>,
                       Response(200, TRUE, [kind |-> "files", files |-> Listing(store)]))
         ELSE Exchange("http", req, <<Call("stream", 0, "files", FALSE, err)>>,
                       Response(500, TRUE, ErrorBody(err)))
    /\ UNCHANGED <<store, now, ing, listed>>

BOT_TOKEN == "123:TOKEN"

TooBigError == "Telegram server says - Bad Request: file is too big"

GetFileOutcomes ==
    {[ok |-> TRUE, file_path |-> "documents/file_7.bin", err |-> None],
     [ok |-> FALSE, file_path |-> None, err |-> TooBigError],
     [ok |-> FALSE, file_path |-> None,
      err |-> "Telegram server says - Bad Request: wrong file_id or the file is temporarily unavailable"]}

\* What session.get(file_url) and resp.read() do: a response with a status and
\* a content type, or an exception of the client (raised by get or by read).
FetchOutcomes ==
    {[kind |-> "response", status |-> 200, content_type |-> c, err |-> None] :
        c \in {"image/png", ""}}
    \cup {[kind |-> "response", status |-> 404, content_type |-> "application/json",
           err |-> None],
          [kind |-> "get_raises", status |-> 0, content_type |-> "",
           err |-> "Cannot connect to host api.telegram.org:443 ssl:default"],
          [kind |-> "read_raises", status |-> 200, content_type |-> "image/png",
           err |-> "Response payload is not completed"]}

\* The except clause without its test for the size ceiling.
DownloadExceptWithoutSizeTest(err_msg) == Response(500, TRUE, ErrorBody(err_msg))

\* Lines 272-280: the except clause of the download handler.
DownloadExcept(err_msg) ==
    IF Contains(Lower(err_msg), "file is too big")
    THEN Response(413, TRUE,
                  ErrorBody("File is larger than 20MB. Use the Telegram bot to download it (Get button in Mini App)."))
    ELSE Response(500, TRUE, ErrorBody(err_msg))

\* A fetch that asks a second time when the first request raised.
FetchRetrying(file_name, file_path, ft) ==
    LET file_url == "https://api.telegram.org/file/bot" \o BOT_TOKEN \o "/" \o file_path
        call == [Call("http_get", 0, file_url, FALSE, ft.err)
                 EXCEPT !.status = ft.status,
                        !.content_type = IF ft.kind = "get_raises" THEN None
                                         ELSE ft.content_type]
    IN  IF ft.kind = "get_raises"
        THEN [calls |-> <<call, call>>, resp |-> DownloadExcept(ft.err)]
        ELSE IF ft.status # 200
        THEN [calls |-> <<call>>,
              resp |-> Response(502, TRUE, ErrorBody("Telegram download failed"))]
        ELSE [calls |-> <<[call EXCEPT !.ok = ft.kind = "response"]>>,
              resp |-> IF ft.kind = "read_raises" THEN DownloadExcept(ft.err)
                       ELSE Response(200, TRUE,
                                     [kind |-> "bytes", filename |-> file_name,
                                      content_type |-> OrElse(ft.content_type,
                                                              "application/octet-stream")])]

\* Lines 256-271: the fetch, once get_file has returned tg_file.
Fetch(file_name, file_path, ft) ==
    LET file_url == "https://api.telegram.org/file/bot" \o BOT_TOKEN \o "/" \o file_path
        call == [Call("http_get", 0, file_url, ft.kind = "response" /\ ft.status = 200,
                      ft.err)
                 EXCEPT !.status = ft.status,
                        !.content_type = IF ft.kind = "get_raises" THEN None
                                         ELSE ft.content_type]
    IN  IF ft.kind = "get_raises"
        THEN [calls |-> <<call>>, resp |-> DownloadExcept(ft.err)]
        ELSE IF ft.status # 200
        THEN [calls |-> <<call>>,
              resp |-> Response(502, TRUE, ErrorBody("Telegram download failed"))]
        ELSE IF ft.kind = "read_raises"
        THEN [calls |-> <<call>>, resp |-> DownloadExcept(ft.err)]
        ELSE [calls |-> <<call>>,
              resp |-> Response(200, TRUE,
                                [kind |-> "bytes", filename |-> file_name,
                                 content_type |-> OrElse(ft.content_type,
                                                         "application/octet-stream")])]

QueryGet(query, key, default) == IF key \in DOMAIN query THEN query[key] ELSE default

\* The download handler without the file_id test of lines 249-250.
DownloadWithoutFileIdTest(req, gf, ft) ==
    LET file_id == QueryGet(req.query, "file_id", None)
        file_name == QueryGet(req.query, "name", "file")
        resolve == Call("get_file", 0, file_id, gf.ok, gf.err)
    IN  IF req.method = "OPTIONS" THEN Exchange("http", req, <<>>, Preflight)
        ELSE IF ~gf.ok
        THEN Exchange("http", req, <<resolve>>, DownloadExcept(gf.err))
        ELSE LET f == Fetch(file_name, gf.file_path, ft)
             IN  Exchange("http", req, <<resolve>> \o f.calls, f.resp)

\* The download handler without the OPTIONS test of lines 244-245.
DownloadWithoutPreflight(req, gf, ft) ==
    LET file_id == QueryGet(req.query, "file_id", None)
        file_name == QueryGet(req.query, "name", "file")
        resolve == Call("get_file", 0, file_id, gf.ok, gf.err)
    IN  IF ~Truthy(file_id)
        THEN Exchange("http", req, <<>>, Response(400, TRUE, ErrorBody("file_id required")))
        ELSE IF ~gf.ok
        THEN Exchange("http", req, <<resolve>>, DownloadExcept(gf.err))
        ELSE LET f == Fetch(file_name, gf.file_path, ft)
             IN  Exchange("http", req, <<resolve>> \o f.calls, f.resp)

\* Lines 242-280.
Download(req, gf, ft) ==
    LET file_id == QueryGet(req.query, "file_id", None)
        file_name == QueryGet(req.query, "name", "file")
        resolve == Call("get_file", 0, file_id, gf.ok, gf.err)
    IN  IF req.method = "OPTIONS" THEN Exchange("http", req, <<>>, Preflight)
        ELSE IF ~Truthy(file_id)
        THEN Exchange("http", req, <<>>, Response(400, TRUE, ErrorBody("file_id required")))
        ELSE IF ~gf.ok
        THEN Exchange("http", req, <<resolve>>, DownloadExcept(gf.err))
        ELSE LET f == Fetch(file_name, gf.file_path, ft)
             IN  Exchange("http", req, <<resolve>> \o f.calls, f.resp)

handle_api_download(req, gf, ft) ==
    /\ Quiet
    /\ Route(req.method, req.path) = "handle_api_download"
    /\ last' = Download(req, gf, ft)
    /\ UNCHANGED <<store, now, ing, listed>>

\* The send handler with line 292 testing file_id alone.
SendTestingFileIdOnly(req, accepts) ==
    IF req.method = "OPTIONS" THEN Exchange("http", req, <<>>, Preflight)
    ELSE IF req.body.kind \in {"none", "malformed"}
    THEN Exchange("http", req, <<>>,
                  Response(500, TRUE, ErrorBody("Expecting value: line 1 column 1 (char 0)")))
    ELSE IF req.body.kind # "object"
    THEN Exchange("http", req, <<>>,
                  Response(500, TRUE, ErrorBody("'list' object has no attribute 'get'")))
    ELSE LET file_id == Get(req.body.fields, "file_id")
             chat_id == Get(req.body.fields, "chat_id")
             relay == Relay(PyInt(chat_id), PyStr(file_id), accepts)
         IN  IF Falsy(file_id)
             THEN Exchange("http", req, <<>>,
                           Response(400, TRUE, ErrorBody("file_id and chat_id required")))
             ELSE IF relay.sent
             THEN Exchange("http", req, relay.calls, Response(200, TRUE, [kind |-> "ok"]))
             ELSE Exchange("http", req, relay.calls,
                           Response(500, TRUE, ErrorBody("Could not send file")))

\* Lines 283-309.
Send(req, accepts) ==
    IF req.method = "OPTIONS" THEN Exchange("http", req, <<>>, Preflight)
    ELSE IF req.body.kind \in {"none", "malformed"}
    THEN Exchange("http", req, <<>>,
                  Response(500, TRUE, ErrorBody("Expecting value: line 1 column 1 (char 0)")))
    ELSE IF req.body.kind # "object"
    THEN Exchange("http", req, <<>>,
                  Response(500, TRUE, ErrorBody("'list' object has no attribute 'get'")))
    ELSE LET file_id == Get(req.body.fields, "file_id")
             chat_id == Get(req.body.fields, "chat_id")
             relay == Relay(PyInt(chat_id), PyStr(file_id), accepts)
         IN  IF Falsy(file_id) \/ Falsy(chat_id)
             THEN Exchange("http", req, <<>>,
                           Response(400, TRUE, ErrorBody("file_id and chat_id required")))
             ELSE IF relay.sent
             THEN Exchange("http", req, relay.calls, Response(200, TRUE, [kind |-> "ok"]))
             ELSE Exchange("http", req, relay.calls,
                           Response(500, TRUE, ErrorBody("Could not send file")))

handle_api_send(req, accepts) ==
    /\ Quiet
    /\ Route(req.method, req.path) = "handle_api_send"
    /\ last' = Send(req, accepts)
    /\ UNCHANGED <<store, now, ing, listed>>

-----------------------------------------------------------------------------
(* The chat handlers without a store write (lines 95-109 and 172-198).     *)

Answer(chat, text, ok) ==
    Call("answer", chat, text, ok, IF ok THEN None ELSE "Telegram server says - Forbidden: bot was blocked by the user")

\* The handler with the notice of line 198 sent whatever the loop did.
WebappDataNoticeAlways(m, accepts, answer_ok) ==
    LET data == Strip(m.data)
        relay == Relay([ok |-> TRUE, v |-> m.chat_id], data, accepts)
        outcome == IF answer_ok THEN "returned" ELSE "raised"
    IN  IF data = ""
        THEN Exchange("webapp_data", m, <<Answer(m.chat_id, "no_data", answer_ok)>>, outcome)
        ELSE IF data = "__UPLOAD__"
        THEN Exchange("webapp_data", m, <<Answer(m.chat_id, "upload", answer_ok)>>, outcome)
        ELSE Exchange("webapp_data", m,
                      relay.calls \o <<Answer(m.chat_id, "could_not_send", answer_ok)>>,
                      outcome)

\* Lines 172-198.  A chat call that fails raises out of the handler.
WebappData(m, accepts, answer_ok) ==
    LET data == Strip(m.data)
        relay == Relay([ok |-> TRUE, v |-> m.chat_id], data, accepts)
        outcome == IF answer_ok THEN "returned" ELSE "raised"
    IN  IF data = ""
        THEN Exchange("webapp_data", m, <<Answer(m.chat_id, "no_data", answer_ok)>>, outcome)
        ELSE IF data = "__UPLOAD__"
        THEN Exchange("webapp_data", m, <<Answer(m.chat_id, "upload", answer_ok)>>, outcome)
        ELSE IF relay.sent
        THEN Exchange("webapp_data", m, relay.calls, "returned")
        ELSE Exchange("webapp_data", m,
                      relay.calls \o <<Answer(m.chat_id, "could_not_send", answer_ok)>>,
                      outcome)

handle_webapp_data(m, accepts, answer_ok) ==
    /\ Quiet
    /\ last' = WebappData(m, accepts, answer_ok)
    /\ UNCHANGED <<store, now, ing, listed>>

\* A /start that also drops the records of the chat it came from.
cmd_start_clearing(chat, button_ok, answer_ok) ==
    /\ Quiet
    /\ last' = Exchange("start", chat,
                        <<Call("set_chat_menu_button", chat, "menu", button_ok,
                               IF button_ok THEN None ELSE DispatchError)>>,
                        IF button_ok /\ answer_ok THEN "returned" ELSE "raised")
    /\ store' = {d \in store : d.chat_id # ToString(chat)}
    /\ UNCHANGED <<now, ing, listed>>

\* Lines 95-109.
cmd_start(chat, button_ok, answer_ok) ==
    /\ Quiet
    /\ last' =
         IF ~button_ok
         THEN Exchange("start", chat, <<Call("set_chat_menu_button", chat, "menu", FALSE, DispatchError)>>,
                       "raised")
         ELSE Exchange("start", chat,
                       <<Call("set_chat_menu_button", chat, "menu", TRUE, None),
                         Answer(chat, "welcome", answer_ok)>>,
                       IF answer_ok THEN "returned" ELSE "raised")
    /\ UNCHANGED <<store, now, ing, listed>>

-----------------------------------------------------------------------------
(* The requests and events the specifications draw.                        *)

Paths == {"/", "/health", "/api/files", "/api/download", "/api/send"}

Queries ==
    {[k \in K |-> IF k = "file_id" THEN f ELSE "a.txt"] :
        K \in SUBSET {"file_id", "name"}, f \in {"", "f1"}}

Bodies ==
    {[kind |-> "malformed"], [kind |-> "array"]}
    \cup {[kind |-> "object", fields |-> [k \in K |-> IF k = "file_id" THEN f ELSE c]] :
            K \in SUBSET {"file_id", "chat_id"},
            f \in {JStr(""), JStr("f1")},
            c \in {JNull, JStr("abc"), JStr("42"), JInt(42), JInt(0)}}

Requests ==
    {Request(m, p, NoQuery, NoBody) : m \in HttpMethods, p \in Paths}
    \cup {Request(m, "/api/download", q, NoBody) : m \in {"GET", "POST"}, q \in Queries}
    \cup {Request("POST", "/api/send", NoQuery, b) : b \in Bodies}

ChatIds == {42, 77}

DataMessages ==
    {[data |-> d, chat_id |-> c] :
        d \in {"", "  ", "__UPLOAD__", " __UPLOAD__ ", "f1", " f1"}, c \in ChatIds}

MethodSet == {Methods[i] : i \in 1..Len(Methods)}

Init ==
    /\ store = {}
    /\ now = 0
    /\ ing = [w \in Workers |-> IdleTask]
    /\ last = NoExchange
    /\ listed = NoListing

HandleFileStep(w) ==
    \/ HandleFileBuild(w)
    \/ \E ok \in BOOLEAN, err \in ChatErrors : HandleFileReject(w, ok, err)
    \/ \E ok \in BOOLEAN, id \in DocIds, err \in StoreErrors : HandleFileAdd(w, ok, id, err)
    \/ \E ok \in BOOLEAN, err \in ChatErrors : HandleFileConfirm(w, ok, err)
    \/ \E ok \in BOOLEAN, err \in ChatErrors : HandleFileExcept(w, ok, err)
    \/ HandleFileEnd(w)

\* The record builder alone: one handle_file at a time, over every message.
NextIngest ==
    \/ \E m \in AllMessages, ok \in BOOLEAN, err \in ChatErrors : HandleFileStart(1, m, ok, err)
    \/ HandleFileStep(1)

SpecIngest == Init /\ [][NextIngest]_vars

\* The requests and events that can be taken up now: a handler takes up the
\* next one only when the exchange under way is over.
Arriving(S) == IF Quiet THEN S ELSE {}

Files ==
    \E req \in Arriving(Requests), ok \in BOOLEAN, err \in StoreErrors : handle_api_files(req, ok, err)

Http ==
    \/ \E req \in Arriving(Requests), b \in BOOLEAN : handle_index(req, b)
    \/ \E req \in Arriving(Requests) : MethodNotAllowed(req)
    \/ \E req \in Arriving(Requests) : handle_health(req)
    \/ Files
    \/ \E req \in Arriving(Requests), gf \in GetFileOutcomes, ft \in FetchOutcomes :
          handle_api_download(req, gf, ft)
    \/ \E req \in Arriving(Requests), accepts \in SUBSET MethodSet :
          handle_api_send(req, accepts)

Chat ==
    \/ \E m \in Arriving(DataMessages), accepts \in SUBSET MethodSet, ok \in BOOLEAN :
          handle_webapp_data(m, accepts, ok)
    \/ \E c \in Arriving(ChatIds), b \in BOOLEAN, ok \in BOOLEAN : cmd_start(c, b, ok)

\* The exchange is over: the response has left, the handler has returned.
ExchangeEnd ==
    /\ last # NoExchange
    /\ last' = NoExchange
    /\ listed' = IF ListedNow THEN [kind |-> "listing", files |-> last.resp.body.files,
                                    docs |-> store]
                  ELSE listed
    /\ UNCHANGED <<store, now, ing>>

\* The HTTP surface and the chat handlers that write nothing, one exchange
\* after another.
NextHttp == Http \/ Chat \/ ExchangeEnd

SpecHttp == Init /\ [][NextHttp]_vars

\* The store and its listing: handle_file fills the collection while the clock
\* runs, and /api/files is asked between any two steps.
Next ==
    \/ \E m \in FewMessages, ok \in BOOLEAN, err \in ChatErrors : HandleFileStart(1, m, ok, err)
    \/ HandleFileStep(1)
    \/ Tick
    \/ Files
    \/ ExchangeEnd

Spec == Init /\ [][Next]_vars

-----------------------------------------------------------------------------
(* The relay and download paths and the pre-flight answers, under SpecHttp. *)

ClaimedOrder == <<"send_document", "send_photo", "send_video", "send_audio">>

IsHttp(path) == last.kind = "http" /\ last.req.path = path

RelayExchange == last.kind = "webapp_data" \/ IsHttp("/api/send")

\* The dispatch calls of the exchange, in the order they were issued.
Dispatches ==
    SelectSeq(last.calls, LAMBDA c : c.api \in {ClaimedOrder[i] : i \in DOMAIN ClaimedOrder})

AllFourFailed ==
    /\ Len(Dispatches) = Len(ClaimedOrder)
    /\ \A i \in 1..Len(Dispatches) : Dispatches[i].api = ClaimedOrder[i] /\ ~Dispatches[i].ok

\* C1: in every relay request (POST /api/send and the data-channel relay) the
\* dispatch calls are the methods document, photo, video, audio in that order,
\* each at most once; only the last call made can have succeeded, and a relay
\* that made a call stops short of the fourth method only on a success: when
\* the k-th method is the first to accept, exactly methods 1..k are invoked.
C1_RelayStopsAtFirstSuccess ==
    RelayExchange =>
        /\ Len(Dispatches) <= Len(ClaimedOrder)
        /\ \A i \in 1..Len(Dispatches) : Dispatches[i].api = ClaimedOrder[i]
        /\ \A i \in 1..Len(Dispatches) : Dispatches[i].ok => i = Len(Dispatches)
        /\ (Len(Dispatches) > 0 /\ ~Dispatches[Len(Dispatches)].ok)
              => Len(Dispatches) = Len(ClaimedOrder)

\* A POST /api/send whose second method is the first to accept.
C1_Witness ==
    /\ IsHttp("/api/send")
    /\ Len(Dispatches) = 2
    /\ ~Dispatches[1].ok
    /\ Dispatches[2].ok

PostSend == IsHttp("/api/send") /\ last.req.method = "POST"

BodyIsObject == last.req.body.kind = "object"

\* The field is not in the body, or is there with null, "" or 0.
FieldMissing(key) == ~BodyIsObject \/ Falsy(Get(last.req.body.fields, key))

\* C2 as claimed: {ok: true} exactly when a dispatch call succeeded, 400
\* exactly when file_id or chat_id is missing, 500 exactly when all four
\* dispatch methods were issued and failed.
C2_StatusExactlyAsClaimed ==
    PostSend =>
        /\ (last.resp.body.kind = "ok") <=> (\E i \in 1..Len(Dispatches) : Dispatches[i].ok)
        /\ (last.resp.status = 400) <=> (FieldMissing("file_id") \/ FieldMissing("chat_id"))
        /\ (last.resp.status = 500) <=> AllFourFailed

\* C2, amended: {ok: true} (status 200) exactly when a dispatch call
\* succeeded; 400 exactly when the body is a JSON object in which file_id or
\* chat_id is absent, null, empty or zero; 500 in every other case, which is
\* when all four dispatch calls were issued and failed and also, with no
\* dispatch call issued, when the body is not a JSON object or chat_id is not
\* an integer.
C2_StatusOfSend ==
    PostSend =>
        /\ last.resp.status \in {200, 400, 500}
        /\ (last.resp.status = 200) <=> (last.resp.body.kind = "ok")
        /\ (last.resp.body.kind = "ok") <=> (\E i \in 1..Len(Dispatches) : Dispatches[i].ok)
        /\ (last.resp.status = 400)
              <=> (BodyIsObject /\ (FieldMissing("file_id") \/ FieldMissing("chat_id")))
        /\ (last.resp.status = 500)
              <=> \/ AllFourFailed
                  \/ /\ Len(Dispatches) = 0
                     /\ \/ ~BodyIsObject
                        \/ /\ ~FieldMissing("file_id")
                           /\ ~FieldMissing("chat_id")
                           /\ ~PyInt(Get(last.req.body.fields, "chat_id")).ok

\* A POST /api/send answered 500 with no dispatch call: chat_id is no integer.
C2_Witness ==
    /\ PostSend
    /\ BodyIsObject
    /\ last.resp.status = 500
    /\ Len(Dispatches) = 0

CallsTo(api) == SelectSeq(last.calls, LAMBDA c : c.api = api)

SizeCeilingAtResolve ==
    \E i \in 1..Len(last.calls) :
        /\ last.calls[i].api = "get_file"
        /\ ~last.calls[i].ok
        /\ last.calls[i].err = "Telegram server says - Bad Request: file is too big"

\* C3: when the origin channel reports a size-ceiling failure while resolving
\* the file reference, /api/download answers 413 with its remediation text and
\* issues no upstream byte fetch in that request.
C3_TooLargeWithoutFetch ==
    (IsHttp("/api/download") /\ SizeCeilingAtResolve) =>
        /\ last.resp.status = 413
        /\ last.resp.body.kind = "error"
        /\ Contains(last.resp.body.error, "Use the Telegram bot to download it")
        /\ Len(CallsTo("http_get")) = 0

C3_Witness ==
    /\ IsHttp("/api/download")
    /\ last.req.method = "GET"
    /\ SizeCeilingAtResolve
    /\ last.resp.status = 413

\* C4 as claimed: whenever the upstream fetch fails, by a non-success status or
\* by a transport error raised during the fetch, /api/download answers 502.
C4_FetchFailureIsGatewayError ==
    IsHttp("/api/download") =>
        \A i \in 1..Len(last.calls) :
            (last.calls[i].api = "http_get" /\ ~last.calls[i].ok) => last.resp.status = 502

HeadersOnly ==
    /\ last.resp.status = 200
    /\ last.resp.cors
    /\ last.resp.body.kind = "empty"
    /\ last.calls = <<>>

\* C10 as claimed: OPTIONS on /health, /api/files, /api/download and /api/send
\* returns the cross-origin headers alone, with no collaborator call.
C10_OptionsOnAnyRoute ==
    (last.kind = "http" /\ last.req.method = "OPTIONS"
        /\ last.req.path \in {"/health", "/api/files", "/api/download", "/api/send"})
    => HeadersOnly

\* C10, amended: OPTIONS on /api/files, /api/download and /api/send returns
\* the cross-origin headers alone, with no body and no call to the store or the
\* origin channel; /health is registered for GET only, and OPTIONS on it gets
\* the framework's 405 without the cross-origin headers (and no call either).
C10_OptionsOnApiRoutes ==
    (last.kind = "http" /\ last.req.method = "OPTIONS") =>
        /\ last.req.path \in {"/api/files", "/api/download", "/api/send"} => HeadersOnly
        /\ last.req.path = "/health" =>
              (last.resp.status = 405 /\ ~last.resp.cors /\ last.calls = <<>>)

C10_Witness ==
    /\ IsHttp("/api/download")
    /\ last.req.method = "OPTIONS"
    /\ HeadersOnly

\* C17: a GET /api/download without file_id is answered 400 with no call to
\* the origin channel; the upstream fetch is issued only after the
\* file-resolution call has succeeded; file bytes are answered only when the
\* fetch returned status 200, under the fetched content type, or
\* application/octet-stream when the fetched one is empty.
C17_DownloadIsGated ==
    (IsHttp("/api/download") /\ last.req.method = "GET") =>
        /\ "file_id" \notin DOMAIN last.req.query =>
              (last.resp.status = 400 /\ last.calls = <<>>)
        /\ \A j \in 1..Len(last.calls) :
              last.calls[j].api = "http_get" =>
                  \E i \in 1..(j - 1) : last.calls[i].api = "get_file" /\ last.calls[i].ok
        /\ last.resp.body.kind = "bytes" =>
              /\ Len(CallsTo("http_get")) = 1
              /\ CallsTo("http_get")[1].ok
              /\ CallsTo("http_get")[1].status = 200
              /\ last.resp.body.content_type =
                    IF CallsTo("http_get")[1].content_type = ""
                    THEN "application/octet-stream"
                    ELSE CallsTo("http_get")[1].content_type

\* File bytes answered under application/octet-stream: the fetch returned 200
\* with no content type.
C17_Witness ==
    /\ IsHttp("/api/download")
    /\ last.req.method = "GET"
    /\ last.resp.body.kind = "bytes"
    /\ CallsTo("http_get")[1].content_type = ""
    /\ last.resp.body.content_type = "application/octet-stream"

\* The failure notice of line 198 was sent to chat.
NoticeSentTo(chat) ==
    \E i \in 1..Len(last.calls) :
        /\ last.calls[i].api = "answer"
        /\ last.calls[i].arg = "could_not_send"
        /\ last.calls[i].target = chat

\* C18 as claimed: on the data channel the empty string and the upload marker
\* cause no dispatch call; every other data string is relayed as it came, as
\* the file id, to the chat of the data message and to no other; the failure
\* notice is sent to that chat exactly when all four dispatch methods failed.
C18_DataChannelRelaysRawData ==
    last.kind = "webapp_data" =>
        LET m == last.req
        IN  /\ m.data \in {"", "__UPLOAD__"} => Len(Dispatches) = 0
            /\ m.data \notin {"", "__UPLOAD__"} =>
                  /\ Len(Dispatches) >= 1
                  /\ \A i \in 1..Len(Dispatches) : Dispatches[i].arg = m.data
            /\ \A i \in 1..Len(last.calls) : last.calls[i].target = m.chat_id
            /\ NoticeSentTo(m.chat_id) <=> AllFourFailed

\* C18, amended: the data is first stripped of surrounding whitespace.  When
\* what remains is empty or is the upload marker no dispatch call is made;
\* otherwise what remains is the file id of every dispatch call, at least one
\* is made, and every call of the handler goes to the chat the data message
\* came from; the failure notice is sent to that chat exactly when all four
\* dispatch methods failed.
C18_DataChannelRelaysStrippedData ==
    last.kind = "webapp_data" =>
        LET m == last.req
            data == Strip(m.data)
        IN  /\ data \in {"", "__UPLOAD__"} => Len(Dispatches) = 0
            /\ data \notin {"", "__UPLOAD__"} =>
                  /\ Len(Dispatches) >= 1
                  /\ \A i \in 1..Len(Dispatches) : Dispatches[i].arg = data
            /\ \A i \in 1..Len(last.calls) : last.calls[i].target = m.chat_id
            /\ NoticeSentTo(m.chat_id) <=> AllFourFailed

\* A file id that came with a leading blank, refused by all four methods: the
\* notice went to the chat of the message.
C18_Witness ==
    /\ last.kind = "webapp_data"
    /\ last.req.data = " f1"
    /\ last.req.chat_id = 77
    /\ AllFourFailed
    /\ Dispatches[1].arg = "f1"
    /\ NoticeSentTo(77)

-----------------------------------------------------------------------------
(* The listing, under Spec.                                                *)

CreatedAt(id) == (CHOOSE d \in store : d.id = id).timestamp

\* C5 as claimed: GET /api/files returns every stored record exactly once, and
\* of two returned records with different createdAt the later one comes first;
\* an empty store yields an empty array.
C5_ListingNewestFirst ==
    (IsHttp("/api/files") /\ last.req.method = "GET" /\ last.resp.status = 200) =>
        LET files == last.resp.body.files
        IN  /\ Len(files) = Cardinality(store)
            /\ {files[i].id : i \in 1..Len(files)} = IdStore
            /\ \A i, j \in 1..Len(files) :
                  (i < j /\ CreatedAt(files[i].id) # CreatedAt(files[j].id))
                      => CreatedAt(files[i].id) > CreatedAt(files[j].id)

-----------------------------------------------------------------------------
(* The record builder, under SpecIngest.                                   *)

\* Lines 121-146 have run for the event of task t.
Built(t) ==
    \/ t.pc \in {"reject", "write", "confirm", "except", "done"}
    \/ t.pc = "raised" /\ t.progress # "none"

Ended(t) == t.pc \in {"done", "raised"}

\* The document the store holds for the event of task t.
Recorded(t) == CHOOSE d \in store : d.id = t.rec

\* C6: in every reachable state every record of the store has a non-empty
\* file_id and a category among image, media and document.
C6_RecordsWellFormed ==
    \A d \in store :
        /\ d.file_id # None
        /\ d.file_id # ""
        /\ d.category \in {"image", "media", "document"}

\* Two records of different categories are in the store.
C6_Witness == \E d, e \in store : d.category # e.category

NamedShapes == {"document", "video", "audio", "animation"}

ClaimedName(shape) ==
    CASE shape = "document" -> "document"
      [] shape = "video" -> "video.mp4"
      [] shape = "audio" -> "audio.mp3"
      [] shape = "animation" -> "animation.gif"

ClaimedMime(shape) ==
    CASE shape = "video" -> "video/mp4"
      [] shape = "audio" -> "audio/mpeg"
      [] shape = "animation" -> "image/gif"
      [] shape = "document" -> None

Present(x) == x # None /\ x # ""

\* C8 as claimed: the record of a document, video, audio or animation carries
\* the provided filename and mime when present, otherwise the kind's default
\* filename and a default mime for the kind (whichever mime is taken to match a
\* document, it is a mime: the field is not left absent).
C8_DefaultsForEveryKind ==
    \A w \in Workers, shape \in NamedShapes :
        (ing[w].rec # 0 /\ DOMAIN ing[w].msg.payload = {shape}) =>
            LET p == ing[w].msg.payload[shape]
                d == Recorded(ing[w])
            IN  /\ d.file_name = IF Present(p.file_name) THEN p.file_name
                                 ELSE ClaimedName(shape)
                /\ IF Present(p.mime_type) THEN d.mime_type = p.mime_type
                   ELSE /\ Present(d.mime_type)
                        /\ shape # "document" => d.mime_type = ClaimedMime(shape)

\* C8, amended: for a payload carrying a document, video, audio or animation
\* the record has the provided filename when it is present and not empty, else
\* document, video.mp4, audio.mp3, animation.gif; a video, audio or animation
\* has the provided mime when present and not empty, else video/mp4,
\* audio/mpeg, image/gif; a document has the provided mime as it is, and none
\* when none was provided: the document kind has no default mime.
C8_DefaultsPerKind ==
    \A w \in Workers, shape \in NamedShapes :
        (ing[w].rec # 0 /\ DOMAIN ing[w].msg.payload = {shape}) =>
            LET p == ing[w].msg.payload[shape]
                d == Recorded(ing[w])
            IN  /\ d.file_name = IF Present(p.file_name) THEN p.file_name
                                 ELSE ClaimedName(shape)
                /\ d.mime_type = IF shape = "document" THEN p.mime_type
                                 ELSE IF Present(p.mime_type) THEN p.mime_type
                                 ELSE ClaimedMime(shape)

\* The record of a document that came without a mime has none.
C8_Witness ==
    \E w \in Workers :
        /\ ing[w].rec # 0
        /\ DOMAIN ing[w].msg.payload = {"document"}
        /\ ing[w].msg.payload.document.mime_type = None
        /\ Recorded(ing[w]).mime_type = None
        /\ Recorded(ing[w]).file_name = "document"

\* The store write of the event of task t was attempted and raised.
WriteFailed(t) == t.adds > 0 /\ t.rec = 0

\* C9 as claimed: when the store write fails, the ingest ends with the failure
\* notice carrying the cause in the chat, with no record for the event and with
\* the one store write it attempted.
C9_WriteFailureIsShown ==
    \A w \in Workers :
        (WriteFailed(ing[w]) /\ Ended(ing[w])) =>
            /\ ing[w].progress = "failed"
            /\ ing[w].cause \in StoreErrors
            /\ ing[w].adds = 1
            /\ ing[w].rec \notin IdStore

\* C19 as claimed: the outcome shown in the chat agrees with the store.  The
\* failure notice is shown only when no record was created for the event, and
\* the saved confirmation only when one was, also when an edit of the progress
\* message fails after the store write succeeded.
C19_OutcomeAgreesWithStore ==
    \A w \in Workers :
        /\ ing[w].progress = "failed" => (ing[w].rec = 0 /\ ing[w].rec \notin IdStore)
        /\ ing[w].progress = "saved" => ing[w].rec \in IdStore

ProbeOrder == <<"document", "photo", "video", "audio", "voice", "video_note", "animation">>

\* The first shape of the probing order the payload carries.
FirstShape(payload) ==
    ProbeOrder[CHOOSE i \in 1..Len(ProbeOrder) :
                   /\ ProbeOrder[i] \in DOMAIN payload
                   /\ \A j \in 1..(i - 1) : ProbeOrder[j] \notin DOMAIN payload]

\* What the shape's descriptor holds: of a photo, its last (largest) size.
Descriptor(payload, shape) ==
    IF shape = "photo" THEN payload.photo[Len(payload.photo)] ELSE payload[shape]

\* C20: one file event makes at most one store write and gets at most one
\* record, also when its payload carries several shape fields; file_id,
\* file_name, file_size and mime_type all come from the first shape present
\* in the order document, photo, video, audio, voice, video note, animation
\* (each the descriptor's own value or that shape's default), and the record
\* written carries exactly these four.
C20_FirstShapeDecidesAllFields ==
    \A w \in Workers :
        LET t == ing[w]
        IN  /\ t.adds <= 1
            /\ (Built(t) /\ DOMAIN t.msg.payload # {}) =>
                  LET shape == FirstShape(t.msg.payload)
                      p == Descriptor(t.msg.payload, shape)
                  IN  /\ t.data.file_id = p.file_id
                      /\ t.data.file_size = p.file_size
                      /\ shape \in NamedShapes =>
                            /\ t.data.file_name \in {p.file_name, ClaimedName(shape)}
                            /\ t.data.mime_type \in {p.mime_type, ClaimedMime(shape)}
                      /\ shape = "photo" =>
                            /\ t.data.file_name = "photo_" \o p.file_unique_id \o ".jpg"
                            /\ t.data.mime_type = "image/jpeg"
                      /\ shape = "voice" => t.data.mime_type = "audio/ogg"
                      /\ shape = "video_note" => t.data.mime_type = "video/mp4"
            /\ t.rec # 0 =>
                  /\ Cardinality({d \in store : d.id = t.rec}) = 1
                  /\ Recorded(t).file_id = t.data.file_id
                  /\ Recorded(t).file_name = t.data.file_name
                  /\ Recorded(t).file_size = t.data.file_size
                  /\ Recorded(t).mime_type = t.data.mime_type

\* The record of a message carrying animation and document: all of it is the
\* document's.
C20_Witness ==
    /\ ing[1].rec # 0
    /\ DOMAIN ing[1].msg.payload = {"animation", "document"}
    /\ Cardinality(store) = 1
    /\ Recorded(ing[1]).file_id = "doc-2"
    /\ Recorded(ing[1]).file_name = "fun.gif.mp4"
    /\ Recorded(ing[1]).file_size = 310
    /\ Recorded(ing[1]).mime_type = "video/mp4"

-----------------------------------------------------------------------------
(* classify_file as a function of its two arguments, under SpecClassify:   *)
(* last holds one call, its arguments and, once made, its return value.    *)

MimeInputs ==
    {None, "", "image", "image/png", "IMAGE/PNG", "imag", "text/image",
     "video/mp4", "audio/ogg", "application/zip"}

NameInputs ==
    {None, "", "readme", "a.jpg", "movie.MKV", "a.b.png", "a.tar.gz", ".mp4",
     "a.", "a.mp3.txt", "jpg", "x.Tiff", "archive.zip"}

ClassifyCall(mime_type, file_name, category) ==
    [kind |-> "classify", mime_type |-> mime_type, file_name |-> file_name,
     category |-> category]

InitClassify ==
    /\ store = {}
    /\ now = 0
    /\ ing = [w \in Workers |-> IdleTask]
    /\ \E m \in MimeInputs, n \in NameInputs : last = ClassifyCall(m, n, None)
    /\ listed = NoListing

Classify ==
    /\ last.kind = "classify"
    /\ last.category = None
    /\ last' = [last EXCEPT !.category = classify_file(last.mime_type, last.file_name)]
    /\ UNCHANGED <<store, now, ing, listed>>

NextClassify == Classify

SpecClassify == InitClassify /\ [][NextClassify]_vars

\* The extension of the design: what follows the last "." of the name, in
\* lower case; empty when the name is absent or has no ".".
ReferenceExtension(name) ==
    IF name = None \/ ~(\E i \in 1..Len(name) : SubSeq(name, i, i) = ".") THEN ""
    ELSE LET k == CHOOSE i \in 1..Len(name) :
                      /\ SubSeq(name, i, i) = "."
                      /\ \A j \in (i + 1)..Len(name) : SubSeq(name, j, j) # "."
         IN  Lower(SubSeq(name, k + 1, Len(name)))

\* The algorithm of the design, first match wins.
ReferenceClassify(mime, name) ==
    LET starts(p) == mime # None /\ Len(mime) >= Len(p) /\ SubSeq(mime, 1, Len(p)) = p
    IN  CASE starts("image") -> "image"
          [] ~starts("image") /\ (starts("video") \/ starts("audio")) -> "media"
          [] OTHER ->
               IF ReferenceExtension(name) \in
                      {"jpg", "jpeg", "png", "gif", "bmp", "webp", "svg", "tiff"}
               THEN "image"
               ELSE IF ReferenceExtension(name) \in
                      {"mp4", "mov", "avi", "mkv", "mp3", "ogg", "wav", "flac", "aac"}
               THEN "media"
               ELSE "document"

\* C11: for every combination of optional mime and optional name, both absent
\* included, classify_file returns one of image, media, document, and the one
\* the reference algorithm gives: image for a mime starting with image, media
\* for a mime starting with video or audio, otherwise by the lower-cased text
\* after the last "." of the name, and document in every other case.
C11_ClassifyIsReference ==
    (last.kind = "classify" /\ last.category # None) =>
        /\ last.category \in {"image", "media", "document"}
        /\ last.category = ReferenceClassify(last.mime_type, last.file_name)

\* A name whose upper-case extension decided the category, the mime absent.
C11_Witness ==
    /\ last.kind = "classify"
    /\ last.mime_type = None
    /\ last.file_name = "movie.MKV"
    /\ last.category = "media"

-----------------------------------------------------------------------------
(* Concurrent ingests, under SpecConcurrent: every slot runs a handle_file *)
(* coroutine, and the coroutines interleave at their awaits.               *)

NextConcurrent ==
    \/ \E w \in Workers, m \in FewMessages, ok \in BOOLEAN, err \in ChatErrors :
          HandleFileStart(w, m, ok, err)
    \/ \E w \in Workers : HandleFileStep(w)

SpecConcurrent == Init /\ [][NextConcurrent]_vars

\* The step is the successful store write of the coroutine in slot w.
WriteSucceeds(w) == ing[w].pc = "write" /\ ing'[w].pc = "confirm"

\* C12: under any interleaving of the ingest handlers (all for one chat), a
\* step that is a successful store write adds exactly one record, under an id
\* no record had, carrying that event's file; every other step leaves the
\* store as it is; no step removes or changes a record; no two records share
\* an id.  The number of records is therefore the number of successful writes.
C12_ConcurrentIngestsAddDistinctRecords ==
    /\ [](\A d, e \in store : d.id = e.id => d = e)
    /\ [][/\ store \subseteq store'
          /\ \A w \in Workers :
                WriteSucceeds(w) =>
                    /\ ing'[w].rec \notin IdStore
                    /\ Cardinality(store') = Cardinality(store) + 1
                    /\ \E d \in store' \ store :
                          /\ d.id = ing'[w].rec
                          /\ d.file_id = ing[w].data.file_id
                          /\ d.chat_id = ToString(ing[w].msg.chat_id)
          /\ store' # store => \E w \in Workers : WriteSucceeds(w)]_vars

\* Two coroutines for the same chat have both written, each its own record.
C12_Witness ==
    /\ ing[1].pc = "confirm"
    /\ ing[2].pc = "confirm"
    /\ ing[1].msg.chat_id = ing[2].msg.chat_id
    /\ ing[1].rec # ing[2].rec
    /\ {ing[1].rec, ing[2].rec} = IdStore

-----------------------------------------------------------------------------
(* Repeated listings, under Spec.                                          *)

-----------------------------------------------------------------------------
(* The whole service, under SpecService: main() serves the HTTP routes     *)
(* while the dispatcher feeds the chat handlers, handle_file among them.   *)

\* The file events of the service as a whole: one that is recorded and one
\* that is turned down.
ServiceMessages ==
    {Msg(11, [document |-> Named("doc-1", "scan.JPG", 700, None)]), UnrecognizedMessage}

NextService ==
    \/ \E m \in ServiceMessages, ok \in BOOLEAN, err \in ChatErrors :
          HandleFileStart(1, m, ok, err)
    \/ HandleFileStep(1)
    \/ Http
    \/ Chat
    \/ ExchangeEnd

SpecService == Init /\ [][NextService]_vars

\* C14: nothing is retried.  In one relay (POST /api/send or the data
\* channel) each dispatch method is called at most once, four calls at most;
\* in one download the file-resolution call and the upstream fetch are each
\* issued at most once; in one ingest the store write is issued at most once;
\* whichever of these calls failed.
C14_NothingIsRetried ==
    /\ RelayExchange =>
          /\ Len(Dispatches) <= 4
          /\ \A api \in SendApis : Len(CallsTo(api)) <= 1
    /\ IsHttp("/api/download") =>
          /\ Len(CallsTo("get_file")) <= 1
          /\ Len(CallsTo("http_get")) <= 1
    /\ \A w \in Workers : ing[w].adds <= 1

\* A download whose one fetch raised, answered while an ingest whose one store
\* write raised is on its way to the failure notice.
C14_Witness ==
    /\ IsHttp("/api/download")
    /\ Len(CallsTo("get_file")) = 1
    /\ Len(CallsTo("http_get")) = 1
    /\ ~CallsTo("http_get")[1].ok
    /\ CallsTo("http_get")[1].status = 0
    /\ ing[1].pc = "except"
    /\ WriteFailed(ing[1])
    /\ ing[1].adds = 1

\* C15 as claimed: every /api request ends with an HTTP response, a JSON error
\* body when a collaborator failed; every ingest that reached handle_file ends
\* returned, with the saved confirmation or a failure notice in the chat; no
\* exception leaves the handler.
C15_FailuresAreCaught ==
    /\ (last.kind = "http" /\ last.req.path \in {"/api/files", "/api/download", "/api/send"}) =>
          /\ last.resp.status \in {200, 400, 413, 500, 502}
          /\ (\E i \in 1..Len(last.calls) : last.calls[i].err # None) =>
                (last.resp.body.kind \in {"error", "ok"} /\ last.resp.cors)
    /\ \A w \in Workers :
          Ended(ing[w]) =>
              /\ ing[w].pc = "done"
              /\ ing[w].progress \in {"saved", "failed", "unprocessable"}

\* C16: records are created by a successful ingest alone and never updated.
\* A step of the listing, download, HTTP relay, data-channel or /start handler
\* leaves the store as it is; the store changes only in the step in which
\* handle_file's add returns; and every record of the store is in it,
\* field for field, after every step.
C16_StoreChangesOnlyByIngest ==
    [][/\ (last' # last) => store' = store
       /\ (store' # store) => \E w \in Workers : WriteSucceeds(w)
       /\ \A d \in store : d \in store'
       /\ \A d \in store, e \in store' : e.id = d.id => e = d]_vars

\* A /start answered while the store holds two records.
C16_Witness ==
    /\ last.kind = "start"
    /\ last.resp = "returned"
    /\ Cardinality(store) = 2

=============================================================================
